---- MODULE Spec2Model ----
(***************************************************************************)
(* Content update engine of steamdeck-app (src/updater.js).                *)
(*                                                                         *)
(* The file system is reduced to the four sibling paths the updater works  *)
(* on: distDir, tmpRoot (.update_tmp), distTmp (.dist_tmp) and distBak     *)
(* (distDir + '.bak').  A path is either absent or a directory holding a   *)
(* map from file names to contents.  Every fs call of runUpdater is one    *)
(* action, so that the instants between two calls are states; a call that  *)
(* can throw (mkdir, rm, rename, copy) has a failing outcome, and a failed *)
(* call leaves the path it worked on as it was.                            *)
(*                                                                         *)
(* The events runUpdater passes to options.onProgress are kept with their  *)
(* exact percents.  Three surroundings are told apart: a file system whose *)
(* calls can fail (Spec, CrashSpec), one whose calls do not (ReliableSpec) *)
(* and a caller whose onProgress listener may throw (ListenerSpec).        *)
(* ResolverSpec applies the resolution of the download set (files list,    *)
(* inferFilesFromManifest, resolveAsset, destinations) to remote manifests *)
(* of many shapes; the update sessions run against one of them.            *)
(* DotDotSpec runs the sessions against a manifest whose book id holds dot *)
(* segments, NetSpec tells the ways a fetch of text fails apart, and       *)
(* StreamSpec lets a response fail after it started.                       *)
(* HostSpec is the 'updater:run' IPC handler of the main process           *)
(* (src/index.js), one action per stretch of code between two awaits.      *)
(***************************************************************************)
EXTENDS Integers, Sequences, FiniteSets, TLC

\* Number of runUpdater calls in one behaviour.
MaxSessions == 2

\* Number of 'data' events of a response that carries a content-length.
Chunks == 2

\* Number of 'updater:run' requests the renderer sends in one behaviour.
MaxRequests == 3

\* Number of 'tts:speak' requests the renderer sends in one behaviour.
MaxSpeaks == 3

VARIABLES
    fs,              \* [distDir, tmpRoot, distTmp, distBak], each [exists, files]
    remote,          \* the remote site: [raw, files, text]; fixed in a behaviour
    pc,              \* position of the running runUpdater call, "idle" if none
    sessions,        \* number of runUpdater calls started
    pre,             \* distDir when the current (or last) runUpdater call started
    filesToDownload, \* the download set of the session, in order
    idx,             \* loop index of Create-folders / Download
    net,             \* HTTP requests of the session, in order, with outcome
    result,          \* how the current (or last) call ended
    errPhase,        \* phase in which the call raised
    prevResult,      \* result of the call before the current one
    swap,            \* what happened in the swap: [displace, promote, rollback]
    installed,       \* distDir has held a complete tree at some time
    check,           \* what the last checkForUpdate returned and requested
    env,             \* the surroundings: [listener, fsFaults, causes, streams]
    progress,        \* the events the latest step delivered to options.onProgress
    lastPct,         \* the last non-null percent delivered in the session
    threw,           \* the onProgress listener has thrown in the session
    errFile,         \* the file whose URL the error message of the call names
    manifest,        \* a remote manifest in full: [files, books, collections]
    plan,            \* what runUpdater resolves `manifest` to: the entries of
                     \* its download set with their destinations, in order
    main             \* the Electron main process: the 'updater:run' handlers
                     \* invoked so far and what the main window was sent

vars == <<fs, remote, pc, sessions, pre, filesToDownload, idx, net, result,
          errPhase, prevResult, swap, installed, check, env, progress, lastPct,
          threw, errFile, manifest, plan, main>>

-----------------------------------------------------------------------------
(* File trees *)

Names == {"content.json", "index.html", "a.png", "app.js",
          "books/1/tts.wav", "books/2/tts.wav", "tts.wav",
          "keep.txt", ".updated_at"}

NoFiles == [n \in Names |-> "none"]
NoDir == [exists |-> FALSE, files |-> NoFiles]
EmptyDir == [exists |-> TRUE, files |-> NoFiles]

\* Texts of a content.json that carry a version.
VersionTexts == {"v1", "v2"}

\* new Date().toISOString(): a stamp that differs from the one already there.
TimeStamps == <<"t1", "t2", "t3", "t4", "t5", "t6">>

\* A mutated copy: dest becomes src, what dest held is lost.
copyRecursive_replace(src, dest) == IF ~src.exists THEN dest ELSE src

\* copyRecursive(src, dest): every file of src is copied over dest; a missing
\* src copies nothing; ensureDir(dest) creates dest.
copyRecursive(src, dest) ==
    IF ~src.exists THEN dest
    ELSE [exists |-> TRUE,
          files |-> [n \in Names |->
                       IF src.files[n] /= "none" THEN src.files[n]
                       ELSE dest.files[n]]]

-----------------------------------------------------------------------------
(* Manifests *)

Null == [isNull |-> TRUE, version |-> "undefined"]

\* JSON.parse of a content.json text: "bad" does not parse; "nover" is a
\* manifest without version; "v1", "v2" are manifests with that version.
JsonParse(text) ==
    IF text = "bad" THEN [ok |-> FALSE, value |-> Null]
    ELSE [ok |-> TRUE,
          value |-> [isNull |-> FALSE,
                     version |-> IF text \in VersionTexts THEN text
                                 ELSE "undefined"]]

\* let local = null; if (existsSync(content.json)) try { parse } catch { null }
ReadLocal(f) ==
    IF f.distDir.exists /\ f.distDir.files["content.json"] /= "none"
    THEN LET p == JsonParse(f.distDir.files["content.json"])
         IN IF p.ok THEN p.value ELSE Null
    ELSE Null

\* m && m.version ? m.version : null
VersionOf(m) ==
    IF ~m.isNull /\ m.version /= "undefined" THEN m.version ELSE "null"

\* A mutated version gate: the comparison is inverted.
SameVersion_ne(localVer, remoteVer) ==
    remoteVer /= "null" /\ localVer /= "null" /\ remoteVer /= localVer

\* if (remoteVer && localVer && remoteVer === localVer)
SameVersion(localVer, remoteVer) ==
    remoteVer /= "null" /\ localVer /= "null" /\ remoteVer = localVer

\* A mutated availability test: a missing local version no longer counts.
Available_nolocal(localVer, remoteVer) ==
    remoteVer /= "null" /\ localVer /= "null" /\ remoteVer /= localVer

\* Boolean(remoteVer && (!localVer || remoteVer !== localVer))
Available(localVer, remoteVer) ==
    remoteVer /= "null" /\ (localVer = "null" \/ remoteVer /= localVer)

-----------------------------------------------------------------------------
(* Asset resolution *)

\* A URL is a host and the segments of its pathname; remoteBaseUrl is an
\* origin, as in every call the host makes.
Url(host, path) == [host |-> host, path |-> path]
BaseHost == "base"
NoUrl == Url("", <<>>)

\* A raw reference p of a manifest: missing, an absolute URL ('http://cdn/..'),
\* a path with a leading '/', or a relative path (a bare filename when it has
\* one segment).
NoRef == [form |-> "none", host |-> "", segs |-> <<>>]
Absolute(host, segs) == [form |-> "absolute", host |-> host, segs |-> segs]
Rooted(segs) == [form |-> "rooted", host |-> "", segs |-> segs]
Relative(segs) == [form |-> "relative", host |-> "", segs |-> segs]

\* new URL(p, baseUrl)
NewUrl(p) ==
    IF p.form = "absolute" THEN Url(p.host, p.segs)
    ELSE Url(BaseHost, p.segs)

\* resolveAsset(p, book) of inferFilesFromManifest.
resolveAsset(p, book) ==
    IF p.form = "none" THEN NoUrl
    ELSE IF p.form = "absolute" THEN Url(p.host, p.segs)
    ELSE IF p.form = "rooted" THEN NewUrl(p)
    ELSE IF book.id /= "undefined"
         THEN Url(BaseHost, <<"books", book.id>> \o p.segs)
         ELSE NewUrl(p)

Range(seq) == {seq[k] : k \in 1..Len(seq)}

\* files.add(u) on a Set, which keeps insertion order and no duplicate.
AddUrl(files, u) == IF u \in Range(files) THEN files ELSE Append(files, u)

\* if (coverUrl) files.add(coverUrl); if (u) files.add(u)
AddResolved(files, u) == IF u = NoUrl THEN files ELSE AddUrl(files, u)

\* The loop of handleBook over b.content: image and video items with a src.
RECURSIVE AddItems(_, _, _)
AddItems(files, content, b) ==
    IF content = <<>> THEN files
    ELSE LET it == Head(content)
             added == IF it.type \in {"image", "video"} /\ it.src /= NoRef
                      THEN AddResolved(files, resolveAsset(it.src, b))
                      ELSE files
         IN AddItems(added, Tail(content), b)

\* A null entry of a books array.
NullBook == [id |-> "null", cover |-> NoRef, content |-> <<>>]

\* handleBook(b)
handleBook(files, b) ==
    IF b = NullBook THEN files
    ELSE AddItems(AddResolved(files, resolveAsset(b.cover, b)), b.content, b)

RECURSIVE HandleBooks(_, _)
HandleBooks(files, books) ==
    IF books = <<>> THEN files
    ELSE HandleBooks(handleBook(files, Head(books)), Tail(books))

RECURSIVE HandleCollections(_, _)
HandleCollections(files, collections) ==
    IF collections = <<>> THEN files
    ELSE HandleCollections(HandleBooks(files, Head(collections).books),
                           Tail(collections))

\* A mutated walk: the books of the collections are not visited.
InferFiles_flat(m) ==
    AddUrl(HandleBooks(<<>>, m.books),
           Url(BaseHost, <<"content.json">>))

\* inferFilesFromManifest(m, baseUrl): the books, the books of the
\* collections, then the manifest itself.
InferFiles(m) ==
    AddUrl(HandleCollections(HandleBooks(<<>>, m.books),
                             m.collections),
           Url(BaseHost, <<"content.json">>))

RECURSIVE AddAll(_, _)
AddAll(files, urls) ==
    IF urls = <<>> THEN files ELSE AddAll(AddUrl(files, Head(urls)), Tail(urls))

\* new Set(inferred.concat(indexAssets)), then merged.add(.../index.html)
Merged(inferred, indexAssets) ==
    AddUrl(AddAll(inferred, indexAssets), Url(BaseHost, <<"index.html">>))

\* path.basename(url)
Basename(url) == url.path[Len(url.path)]

\* One entry of remote.files mapped to { url, path }: the url is f.url, or
\* f.path, against remoteBaseUrl; the path is f.path || path.basename(url).
FileEntry(f) ==
    LET url == IF f.url /= NoRef THEN NewUrl(f.url)
               ELSE NewUrl(Relative(f.path))
    IN [url |-> url,
        path |-> IF f.path /= <<>> THEN f.path ELSE <<Basename(url)>>]

\* An inferred URL mapped to { url: u, path: (new URL(u)).pathname }.
InferredEntry(u) == [url |-> u, path |-> u.path]

\* relPath of the Create-folders and Download loops:
\* new URL(f.url).pathname without its leading '/'.
relPath(f) == f.url.path

\* What the loops do with entry f: fetch f.url, write to tmpRoot/relPath.
Planned(f) == [url |-> f.url, path |-> f.path, dest |-> relPath(f)]

\* The manifest of the site the update sessions of this model run against:
\* one book with a cover, no files list of its own.
SiteManifest ==
    [files |-> <<>>,
     books |-> <<[id |-> "1", cover |-> Relative(<<"a.png">>),
                  content |-> <<>>]>>,
     collections |-> <<>>]

\* What parseHtmlForAssets may find in a fetched index.html: nothing, a
\* script, a script and a link to the manifest, or a script and a link
\* whose URL has the pathname '/' (href="/", href="#top").
IndexAssets ==
    { <<>>,
      <<Url(BaseHost, <<"app.js">>)>>,
      <<Url(BaseHost, <<"app.js">>), Url(BaseHost, <<"content.json">>)>>,
      <<Url(BaseHost, <<"app.js">>), Url(BaseHost, <<>>)>> }

-----------------------------------------------------------------------------
(* The download set *)

\* inferFilesFromManifest on the manifest of the site: the cover of the
\* book, then the manifest itself, each named by its file name.
inferFilesFromManifest ==
    LET inferred == InferFiles(SiteManifest)
    IN [k \in 1..Len(inferred) |-> Basename(inferred[k])]

\* parseHtmlForAssets on the fetched index.html: the script it links.
parseHtmlForAssets == <<"app.js">>

\* Array.from(new Set(inferred.concat(indexAssets))) plus index.html.
MergedFiles(indexOk) ==
    inferFilesFromManifest \o (IF indexOk THEN parseHtmlForAssets ELSE <<>>)
        \o <<"index.html">>

\* What a completed download of file n leaves at tmpRoot/n.
DownloadedContent(n) == IF n = "content.json" THEN remote.raw ELSE "new"

Request(kind, name, outcome) == [kind |-> kind, name |-> name, outcome |-> outcome]

\* The outcomes a request for file `name` can have: a file the remote site
\* does not serve is answered with a status >= 400 every time.
FetchOutcomes(name, outcomes) ==
    IF name = "index.html" /\ ~remote.index
    THEN outcomes \cap {"fail", "http"}
    ELSE outcomes

\* A mutated fetchText: a status >= 400 resolves with the body.
Rejected_status(outcome) == outcome \notin {"ok", "http"}

\* How a fetchText call ends: it resolves with the body, or rejects on a
\* connection error, on a timeout or on a status >= 400; the three are told
\* apart where the surroundings say so.
TextOutcomes ==
    IF env.causes THEN {"ok", "connection", "timeout", "http"}
    ELSE {"ok", "fail"}
Rejected(outcome) == outcome /= "ok"

-----------------------------------------------------------------------------
(* Progress events *)

\* const PHASE = { ANALYZE_MAX: 5, CREATE_MAX: 15, DOWNLOAD_MAX: 90 }
ANALYZE_MAX == 5
CREATE_MAX == 15
DOWNLOAD_MAX == 90

\* percent: null, the percent of a status-only event.
NullPercent == -1

\* Percents are kept as whole multiples of 1/PctScale, which holds every
\* fraction the loops below produce.
PctScale == Chunks * 12

Pct(n) == n * PctScale

Min(a, b) == IF a <= b THEN a ELSE b

Event(percent, message) == [percent |-> percent, message |-> message]

\* emitProgress(percent, message): one call of options.onProgress.
emitProgress(percent, message) == <<Event(percent, message)>>

\* emitStatus(message): options.onProgress({ percent: null, message }).
emitStatus(message) == <<Event(NullPercent, message)>>

\* A mutated create-folders percent: it counts down from CREATE_MAX.
createPct_down(i, totalFiles) ==
    Pct(CREATE_MAX)
        - ((i + 1) * Pct(CREATE_MAX - ANALYZE_MAX)) \div totalFiles

\* Math.min(CREATE_MAX, ANALYZE_MAX + ((i + 1) / Math.max(1, totalFiles))
\*                                     * (CREATE_MAX - ANALYZE_MAX))
createPct(i, totalFiles) ==
    Min(Pct(CREATE_MAX),
        Pct(ANALYZE_MAX)
            + ((i + 1) * Pct(CREATE_MAX - ANALYZE_MAX))
                \div (IF totalFiles < 1 THEN 1 ELSE totalFiles))

\* The progress callback of a download: fileFraction is
\* (idx + received / total) / totalFiles, mapped into CREATE_MAX..DOWNLOAD_MAX.
overall(i, received, total, totalFiles) ==
    Min(Pct(DOWNLOAD_MAX),
        Pct(CREATE_MAX)
            + ((i * total + received) * Pct(DOWNLOAD_MAX - CREATE_MAX))
                \div (total * totalFiles))

\* CREATE_MAX + (downloaded / totalFiles) * (DOWNLOAD_MAX - CREATE_MAX)
overallAfter(downloaded, totalFiles) ==
    Min(Pct(DOWNLOAD_MAX),
        Pct(CREATE_MAX)
            + (downloaded * Pct(DOWNLOAD_MAX - CREATE_MAX)) \div totalFiles)

\* generateTtsFiles, the progress callback of the audio download:
\* DOWNLOAD_MAX + ((i + received / total) / totalBooks) * (100 - DOWNLOAD_MAX)
ttsPct(i, received, total, totalBooks) ==
    Min(Pct(100),
        Pct(DOWNLOAD_MAX)
            + ((i * total + received) * Pct(100 - DOWNLOAD_MAX))
                \div (total * totalBooks))

\* generateTtsFiles, after each book:
\* DOWNLOAD_MAX + ((i + 1) / totalBooks) * (100 - DOWNLOAD_MAX)
ttsDonePct(i, totalBooks) ==
    Min(Pct(100),
        Pct(DOWNLOAD_MAX) + ((i + 1) * Pct(100 - DOWNLOAD_MAX)) \div totalBooks)

\* The progress events of the first `count` chunks of a response with
\* content-length, percents[r] being the percent computed at the r-th chunk.
ChunkEvents(count, percents, message) ==
    [r \in 1..count |-> Event(percents[r], message)]

\* The events delivered when the listener throws at the t-th one (t = 0: it
\* does not throw): the rest of the events is never emitted.
Delivered(events, t) == IF t = 0 THEN events ELSE SubSeq(events, 1, t)

\* The last non-null percent after `events`, given the one before them.
LastPercent(last, events) ==
    LET nonNull == {k \in 1..Len(events) : events[k].percent /= NullPercent}
    IN IF nonNull = {} THEN last
       ELSE events[CHOOSE k \in nonNull : \A j \in nonNull : j <= k].percent

\* options.onProgress as a function that never throws, and as one that may
\* throw at any call.
ThrowAt(events) ==
    IF env.listener = "throwing" THEN 0..Len(events) ELSE {0}

\* The step delivers `events`, the listener throwing at the t-th.
Emit(events, t) ==
    /\ progress' = Delivered(events, t)
    /\ lastPct' = LastPercent(lastPct, Delivered(events, t))
    /\ threw' = (threw \/ t > 0)

\* The step calls options.onProgress not at all.
Silent ==
    /\ progress' = <<>>
    /\ UNCHANGED <<lastPct, threw>>

\* A call of the file system that may throw, when the file system is one
\* that fails.
FsCall == IF env.fsFaults THEN BOOLEAN ELSE {TRUE}

\* The same for a step of several calls, each with its own failure.
FsOutcomes(failures) == {"ok"} \cup (IF env.fsFaults THEN failures ELSE {})

-----------------------------------------------------------------------------
(* Initial state *)

\* An Error object: its message, the errors the message was built from, and
\* the properties set on it besides the message.
NoError == [message |-> "none", causes |-> {}, flags |-> {}]

\* What a spawnTtsFallback call did: the commands it passed to spawn and
\* the value it returned.
NoCall == [tried |-> <<>>, returned |-> FALSE]

\* No request answered by the static server.
NoResponse == [status |-> 0, body |-> "none", path |-> <<>>]

\* The main process before any request: no 'updater:run' handler, no TTS
\* process spawned, currentTtsProcess null (0), no TTS binary installed.
NoHost ==
    [handlers |-> <<>>, reloads |-> 0, mainStatus |-> "none",
     binaries |-> {}, procs |-> <<>>, current |-> 0, lastCall |-> NoCall,
     updaterDir |-> <<>>, serverDir |-> <<>>, response |-> NoResponse]

NoSwap == [displace |-> "none", promote |-> "none", rollback |-> "none",
           error |-> NoError]
NoCheck == [status |-> "none", available |-> FALSE,
            localVer |-> "null", remoteVer |-> "null", net |-> <<>>]

\* The installed tree: a page, a cover, a file no update replaces, and a
\* content.json that is missing, unparsable, without version or versioned.
InstalledTrees ==
    { [exists |-> TRUE,
       files |-> [NoFiles EXCEPT !["content.json"] = c,
                                 !["index.html"] = "old",
                                 !["a.png"] = "old",
                                 !["keep.txt"] = "old"]] :
      c \in {"none", "bad", "nover", "v1", "v2"} }

\* The ids of the books of a manifest that have narrative text, in the
\* order of the manifest: no book, or both books.
TextBooks == { <<>>, <<"1", "2">> }

\* A book id that holds dot segments, and the segments of a book id.
DotDotId == "../../dist"
IdSegments(id) == IF id = DotDotId THEN <<"..", "..", "dist">> ELSE <<id>>

\* What path.join and new URL do to the segments of a path: a ".." segment
\* removes the segment before it, and is dropped at the top.
RECURSIVE Normalize(_, _)
Normalize(done, segs) ==
    IF segs = <<>> THEN done
    ELSE IF Head(segs) = ".."
         THEN Normalize(IF done = <<>> THEN done
                        ELSE SubSeq(done, 1, Len(done) - 1), Tail(segs))
         ELSE Normalize(Append(done, Head(segs)), Tail(segs))

\* The paths of the updater below the folder that holds distDir:
\* tmpRoot is path.join(distDir, '..', '.update_tmp').
DistDirPath == <<"dist">>
TmpRootPath == Normalize(<<>>, DistDirPath \o <<"..", ".update_tmp">>)

\* The name of a file from the segments of its path below a folder.
FileName(segs) ==
    CASE segs = <<"books", "1", "tts.wav">> -> "books/1/tts.wav"
      [] segs = <<"books", "2", "tts.wav">> -> "books/2/tts.wav"
      [] segs = <<"dist", "tts.wav">> -> "dist/tts.wav"
      [] segs = <<"tts.wav">> -> "tts.wav"

\* `/books/${book.id}/tts.wav`, without the leading slash, as the URL and
\* the file system read it.
ttsRel(id) ==
    FileName(Normalize(<<>>, <<"books">> \o IdSegments(id) \o <<"tts.wav">>))

\* outPath = path.join(tmpRoot, rel): the folder it lies in and its name in
\* that folder.
outPath(id) ==
    LET segs == Normalize(<<>>, TmpRootPath \o <<"books">> \o IdSegments(id)
                                  \o <<"tts.wav">>)
    IN [root |-> IF SubSeq(segs, 1, Len(DistDirPath)) = DistDirPath
                 THEN "distDir" ELSE "tmpRoot",
        name |-> FileName(Tail(segs))]

\* A file of a folder is written (content "none": removed), the folder
\* having been made by ensureDir.
WriteFile(f, out, content) ==
    [f EXCEPT ![out.root] =
        [exists |-> TRUE, files |-> [@.files EXCEPT ![out.name] = content]]]

\* The remote site: the text of its content.json, the files list of that
\* manifest, its books with narrative text, whether it serves index.html.
Remotes ==
    { [raw |-> "bad", files |-> <<>>, text |-> <<>>, index |-> TRUE] } \cup
    { [raw |-> r, files |-> f, text |-> t, index |-> TRUE] :
        r \in {"nover", "v2"},
        f \in { <<>>, <<"a.png">>, <<"content.json", "a.png">> },
        t \in TextBooks } \cup
    { [raw |-> r, files |-> <<>>, text |-> t, index |-> FALSE] :
        r \in {"nover", "v2"}, t \in TextBooks }

\* The surroundings of the updater: the file system fails or does not, the
\* onProgress listener the caller passes throws or does not.
\* Where `streams` is set, a response or the file it is piped into may fail
\* after the response started.
FailingFs ==
    [listener |-> "quiet", fsFaults |-> TRUE, causes |-> FALSE,
     streams |-> FALSE]
ReliableFs ==
    [listener |-> "quiet", fsFaults |-> FALSE, causes |-> FALSE,
     streams |-> FALSE]
ThrowingListener ==
    [listener |-> "throwing", fsFaults |-> FALSE, causes |-> FALSE,
     streams |-> FALSE]
FailingNet ==
    [listener |-> "quiet", fsFaults |-> FALSE, causes |-> TRUE,
     streams |-> FALSE]
FailingStream ==
    [listener |-> "quiet", fsFaults |-> FALSE, causes |-> FALSE,
     streams |-> TRUE]

InitWith(e, remotes) ==
    /\ env = e
    /\ \E d \in InstalledTrees \cup {NoDir} :
          /\ fs = [distDir |-> d, tmpRoot |-> NoDir, distTmp |-> NoDir,
                   distBak |-> NoDir]
          /\ pre = d
          /\ installed = d.exists
    /\ remote \in remotes
    /\ pc = "idle"
    /\ sessions = 0
    /\ filesToDownload = <<>>
    /\ idx = 0
    /\ net = <<>>
    /\ result = "none"
    /\ errPhase = "none"
    /\ prevResult = "none"
    /\ swap = NoSwap
    /\ check = NoCheck
    /\ progress = <<>>
    /\ lastPct = NullPercent
    /\ threw = FALSE
    /\ errFile = "none"
    /\ manifest = SiteManifest
    /\ plan = <<>>
    /\ main = NoHost

InitIn(e) == InitWith(e, Remotes)

Init == InitIn(FailingFs)

-----------------------------------------------------------------------------
(* runUpdater *)

\* throw new Error(...) whose message names `file`: the call ends, nothing
\* else is touched.
RaiseFor(phase, file) ==
    /\ pc' = "idle"
    /\ result' = "error"
    /\ errPhase' = phase
    /\ errFile' = file

\* throw new Error(...): the call ends, nothing else is touched.
Raise(phase) == RaiseFor(phase, "none")

\* An exception thrown inside a 'data' callback of a response is caught by
\* nobody: the call never returns.
Uncaught ==
    /\ pc' = "idle"
    /\ result' = "crashed"
    /\ UNCHANGED <<errPhase, errFile>>

\* The step goes on to position `next` of the call.
Goto(next) ==
    /\ pc' = next
    /\ UNCHANGED <<result, errPhase, errFile>>

\* The books generateTtsFiles collects: those with narrative text.
TtsBooks == remote.text

\* The call of runUpdater(options), up to emitProgress(0, 'Analyzing ...').
Start ==
    /\ pc = "idle"
    /\ sessions < MaxSessions
    /\ sessions' = sessions + 1
    /\ pre' = fs.distDir
    /\ prevResult' = result
    /\ filesToDownload' = <<>>
    /\ idx' = 0
    /\ net' = <<>>
    /\ swap' = NoSwap
    /\ check' = NoCheck
    /\ LET events == emitProgress(Pct(0), "Analyzing") IN
       \E t \in ThrowAt(events) :
         /\ progress' = Delivered(events, t)
         /\ lastPct' = LastPercent(NullPercent, Delivered(events, t))
         /\ threw' = (t > 0)
         /\ IF t > 0
            THEN Raise("analyze")
            ELSE /\ pc' = "analyze"
                 /\ result' = "running"
                 /\ errPhase' = "none"
                 /\ errFile' = "none"
    /\ UNCHANGED <<fs, remote, installed, env, manifest, plan, main>>

\* Phase 1: read the local manifest, fetch and parse the remote one, and
\* return at once when both versions are the same.
Analyze ==
    /\ pc = "analyze"
    /\ \E outcome \in TextOutcomes :
         /\ net' = Append(net, Request("manifest", "content.json", outcome))
         /\ IF Rejected(outcome) \/ ~JsonParse(remote.raw).ok
            THEN Raise("analyze") /\ Silent
            ELSE LET localVer == VersionOf(ReadLocal(fs))
                     remoteVer == VersionOf(JsonParse(remote.raw).value)
                     events == emitProgress(Pct(100), "Content up-to-date")
                 IN IF SameVersion(localVer, remoteVer)
                    THEN \E t \in ThrowAt(events) :
                           /\ Emit(events, t)
                           /\ IF t > 0
                              THEN Raise("analyze")
                              ELSE /\ pc' = "idle"
                                   /\ result' = "same-version"
                                   /\ UNCHANGED <<errPhase, errFile>>
                    ELSE Goto("resolve") /\ Silent
    /\ UNCHANGED <<fs, remote, sessions, pre, filesToDownload, idx,
                   prevResult, swap, installed, check, env, manifest, plan, main>>

\* determine files to download: the manifest's files list when it is not
\* empty, else the inferred set merged with what index.html links.
Resolve ==
    /\ pc = "resolve"
    /\ IF Len(remote.files) > 0
       THEN /\ filesToDownload' = remote.files
            /\ net' = net
       ELSE \E outcome \in FetchOutcomes("index.html", {"ok", "fail"}) :
              /\ net' = Append(net, Request("discovery", "index.html", outcome))
              /\ filesToDownload' = MergedFiles(outcome = "ok")
    /\ Goto("prepare")
    /\ Silent
    /\ UNCHANGED <<fs, remote, sessions, pre, idx, prevResult, swap,
                   installed, check, env, manifest, plan, main>>

\* Phase 2, first lines: remove a tmpRoot left behind, create a fresh one,
\* emitStatus('Creating folders...').
Prepare ==
    /\ pc = "prepare"
    /\ \E outcome \in FsOutcomes({"rmfail", "mkfail"}) :
         /\ CASE outcome = "ok" ->
                   /\ fs' = [fs EXCEPT !.tmpRoot = EmptyDir]
                   /\ LET events == emitStatus("Creating folders") IN
                      \E t \in ThrowAt(events) :
                        /\ Emit(events, t)
                        /\ IF t > 0
                           THEN idx' = idx /\ Raise("create-folders")
                           ELSE idx' = 1 /\ Goto("folders")
              [] outcome = "rmfail" ->
                   /\ fs.tmpRoot.exists
                   /\ fs' = fs
                   /\ idx' = idx
                   /\ Raise("create-folders")
                   /\ Silent
              [] outcome = "mkfail" ->
                   /\ fs' = [fs EXCEPT !.tmpRoot = NoDir]
                   /\ idx' = idx
                   /\ Raise("create-folders")
                   /\ Silent
    /\ UNCHANGED <<remote, sessions, pre, filesToDownload, net, prevResult,
                   swap, installed, check, env, manifest, plan, main>>

\* Phase 2, one turn of the loop: ensureDir(path.dirname(dest)) and the
\* percent of the turn; after the last turn, emitStatus('Downloading files...').
CreateFolder ==
    /\ pc = "folders"
    /\ idx <= Len(filesToDownload)
    /\ \E ok \in FsCall :
         /\ IF ok
            THEN LET totalFiles == Len(filesToDownload)
                     events ==
                        emitProgress(createPct(idx - 1, totalFiles),
                                     "Prepared folder")
                        \o (IF idx = totalFiles
                            THEN emitStatus("Downloading files") ELSE <<>>)
                 IN \E t \in ThrowAt(events) :
                      /\ Emit(events, t)
                      /\ IF t > 0
                         THEN idx' = idx /\ Raise("create-folders")
                         ELSE IF idx = totalFiles
                              THEN idx' = 1 /\ Goto("download")
                              ELSE idx' = idx + 1 /\ Goto(pc)
            ELSE /\ idx' = idx
                 /\ Raise("create-folders")
                 /\ Silent
    /\ UNCHANGED <<fs, remote, sessions, pre, filesToDownload, net,
                   prevResult, swap, installed, check, env, manifest, plan, main>>

\* How a downloadToFile call goes: the file is written in full, the request
\* meets a connection error, a status >= 400 or a timeout, the file written
\* is empty or, once the response has started, the response or the write
\* stream emits 'error'.
DownloadOutcomes ==
    {"ok", "connection", "http", "timeout", "zero"}
        \cup (IF env.streams THEN {"broken"} ELSE {})

\* An 'error' of res or of file has no listener in downloadToFile: neither
\* resolve nor reject is called any more, and the await never returns.
Pending(n) ==
    /\ fs' = [fs EXCEPT !.tmpRoot.files[n] = "partial"]
    /\ idx' = idx
    /\ Goto("pending")

\* A mutated catch: the failure ends the Download phase, not the call.
DownloadFailed_skip(n) ==
    /\ fs' = fs
    /\ idx' = 1
    /\ Goto("tts")

\* A mutated catch: the failure is swallowed and the loop goes on.
DownloadFailed_goOn(n) ==
    /\ fs' = fs
    /\ idx' = idx + 1
    /\ Goto(pc)

\* A mutated catch: the error it throws does not name the file.
DownloadFailed_unnamed(n) ==
    /\ \E removed \in FsCall :
         fs' = IF removed THEN [fs EXCEPT !.tmpRoot = NoDir] ELSE fs
    /\ idx' = idx
    /\ Raise("download")

\* catch (e) { try { rmSync(tmpRoot) } catch (e) { }; throw new Error(
\* 'Failed to download ' + f.url + ...) }: a failure to remove is ignored.
DownloadFailed(n) ==
    /\ \E removed \in FsCall :
         fs' = IF removed THEN [fs EXCEPT !.tmpRoot = NoDir] ELSE fs
    /\ idx' = idx
    /\ RaiseFor("download", n)

\* Phase 3, one turn of the loop: downloadToFile with its progress callback,
\* the size check, the percent of the turn, and on any failure the catch;
\* after the last turn, emitStatus('Generating TTS audio files...').
Download ==
    /\ pc = "download"
    /\ idx <= Len(filesToDownload)
    /\ LET n == filesToDownload[idx]
           totalFiles == Len(filesToDownload)
           chunks(count) ==
               ChunkEvents(count,
                           [r \in 1..Chunks |->
                              overall(idx - 1, r, Chunks, totalFiles)],
                           "Downloading")
       IN
       \E outcome \in FetchOutcomes(n, DownloadOutcomes) :
         /\ net' = Append(net, Request("asset", n, outcome))
         /\ IF outcome = "ok"
            THEN \E count \in {0, Chunks} :
                   LET events ==
                          chunks(count)
                          \o emitProgress(overallAfter(idx, totalFiles),
                                          "Downloaded")
                          \o (IF idx = totalFiles
                              THEN emitStatus("Generating TTS") ELSE <<>>)
                   IN \E t \in ThrowAt(events) :
                        /\ Emit(events, t)
                        /\ CASE t = 0 ->
                                  /\ fs' = [fs EXCEPT !.tmpRoot.files[n] =
                                                         DownloadedContent(n)]
                                  /\ IF idx = totalFiles
                                     THEN idx' = 1 /\ Goto("tts")
                                     ELSE idx' = idx + 1 /\ Goto(pc)
                             [] t > 0 /\ t <= count ->
                                  /\ fs' = fs
                                  /\ idx' = idx
                                  /\ Uncaught
                             [] t = count + 1 ->
                                  DownloadFailed(n)
                             [] t = count + 2 ->
                                  /\ fs' = [fs EXCEPT !.tmpRoot.files[n] =
                                                         DownloadedContent(n)]
                                  /\ idx' = idx
                                  /\ Raise("tts")
            ELSE \E count \in (IF outcome \in {"connection", "timeout",
                                              "broken"}
                               THEN 0..(Chunks - 1) ELSE {0}) :
                   \E t \in ThrowAt(chunks(count)) :
                     /\ Emit(chunks(count), t)
                     /\ IF t > 0
                        THEN fs' = fs /\ idx' = idx /\ Uncaught
                        ELSE IF outcome = "broken"
                             THEN Pending(n)
                             ELSE DownloadFailed(n)
    /\ UNCHANGED <<remote, sessions, pre, filesToDownload, prevResult, swap,
                   installed, check, env, manifest, plan, main>>

\* Phase 4, generateTtsFiles: without a book that has narrative text it
\* returns at once.  Else one turn of its loop: ensureDir, fetch the book's
\* tts.wav into tmpRoot with a progress callback (a failed fetch is logged and
\* its file unlinked), emit the percent of the book.  Whatever is thrown out
\* of the loop ends the phase, not the call.
GenerateTts ==
    /\ pc = "tts"
    /\ LET total == Len(TtsBooks) IN
       IF total = 0
       THEN /\ UNCHANGED <<net, fs, idx>>
            /\ Goto("stage")
            /\ Silent
       ELSE \E made \in FsCall :
              IF ~made
              THEN /\ UNCHANGED <<net, fs, idx>>
                   /\ Goto("stage")
                   /\ Silent
              ELSE
              \E outcome \in {"ok", "fail"} :
              /\ net' = Append(net, Request("tts", ttsRel(TtsBooks[idx]), outcome))
              /\ \E count \in (IF outcome = "ok" THEN {0, Chunks}
                               ELSE 0..(Chunks - 1)) :
                   LET events ==
                          ChunkEvents(count,
                                      [r \in 1..Chunks |->
                                         ttsPct(idx - 1, r, Chunks, total)],
                                      "Downloading TTS")
                          \o emitProgress(ttsDonePct(idx - 1, total),
                                          "Processed TTS")
                   IN \E t \in ThrowAt(events) :
                        /\ Emit(events, t)
                        /\ IF t > 0 /\ t <= count
                           THEN UNCHANGED <<fs, idx>> /\ Uncaught
                           ELSE /\ fs' = WriteFile(fs, outPath(TtsBooks[idx]),
                                                   IF outcome = "ok"
                                                   THEN "new" ELSE "none")
                                /\ IF t = 0 /\ idx < total
                                   THEN idx' = idx + 1 /\ Goto(pc)
                                   ELSE idx' = idx /\ Goto("stage")
    /\ UNCHANGED <<remote, sessions, pre, filesToDownload, prevResult, swap,
                   installed, check, env, manifest, plan, main>>

\* Build, first lines: remove a distTmp left behind (ignoring a failure to),
\* then ensureDir(distTmp).
Stage ==
    /\ pc = "stage"
    /\ Silent
    /\ \E outcome \in FsOutcomes({"rmfail", "mkfail"}) :
         /\ CASE outcome = "ok" ->
                   /\ fs' = [fs EXCEPT !.distTmp = EmptyDir]
                   /\ pc' = "copyDist"
                   /\ UNCHANGED <<result, errPhase, errFile>>
              [] outcome = "rmfail" ->
                   /\ fs.distTmp.exists
                   /\ fs' = fs
                   /\ pc' = "copyDist"
                   /\ UNCHANGED <<result, errPhase, errFile>>
              [] outcome = "mkfail" ->
                   /\ fs' = [fs EXCEPT !.distTmp = NoDir]
                   /\ Raise("build")
    /\ UNCHANGED <<remote, sessions, pre, filesToDownload, idx, net,
                   prevResult, swap, installed, check, env, manifest, plan, main>>

\* copyRecursive(distDir, distTmp)
CopyDist ==
    /\ pc = "copyDist"
    /\ Silent
    /\ \E ok \in FsCall :
         /\ IF ok
            THEN /\ fs' = [fs EXCEPT
                             !.distTmp = copyRecursive(fs.distDir, fs.distTmp)]
                 /\ pc' = "overlay"
                 /\ UNCHANGED <<result, errPhase, errFile>>
            ELSE /\ fs' = fs
                 /\ Raise("build")
    /\ UNCHANGED <<remote, sessions, pre, filesToDownload, idx, net,
                   prevResult, swap, installed, check, env, manifest, plan, main>>

\* copyRecursive(tmpRoot, distTmp)
CopyOverlay ==
    /\ pc = "overlay"
    /\ Silent
    /\ \E ok \in FsCall :
         /\ IF ok
            THEN /\ fs' = [fs EXCEPT
                             !.distTmp = copyRecursive(fs.tmpRoot, fs.distTmp)]
                 /\ pc' = "rmStaleBak"
                 /\ UNCHANGED <<result, errPhase, errFile>>
            ELSE /\ fs' = fs
                 /\ Raise("build")
    /\ UNCHANGED <<remote, sessions, pre, filesToDownload, idx, net,
                   prevResult, swap, installed, check, env, manifest, plan, main>>

\* if (existsSync(distBak)) rmSync(distBak): a throw goes to the catch.
RemoveStaleBak ==
    /\ pc = "rmStaleBak"
    /\ Silent
    /\ IF fs.distBak.exists
       THEN \E ok \in FsCall :
              /\ IF ok
                 THEN fs' = [fs EXCEPT !.distBak = NoDir] /\ pc' = "displace"
                 ELSE fs' = fs /\ pc' = "rollback"
       ELSE fs' = fs /\ pc' = "displace"
    /\ UNCHANGED <<remote, sessions, pre, filesToDownload, idx, net, result,
                   errPhase, prevResult, swap, installed, check, env, errFile,
                   manifest, plan, main>>

\* renameSync(distDir, distBak): throws when distDir is missing.
Displace ==
    /\ pc = "displace"
    /\ Silent
    /\ IF fs.distDir.exists
       THEN \E ok \in FsCall :
              /\ IF ok
                 THEN /\ fs' = [fs EXCEPT !.distBak = fs.distDir,
                                          !.distDir = NoDir]
                      /\ swap' = [swap EXCEPT !.displace = "ok"]
                      /\ pc' = "promote"
                 ELSE /\ fs' = fs
                      /\ swap' = [swap EXCEPT !.displace = "failed"]
                      /\ pc' = "rollback"
       ELSE /\ fs' = fs
            /\ swap' = [swap EXCEPT !.displace = "failed"]
            /\ pc' = "rollback"
    /\ UNCHANGED <<remote, sessions, pre, filesToDownload, idx, net, result,
                   errPhase, prevResult, installed, check, env, errFile,
                   manifest, plan, main>>

\* renameSync(distTmp, distDir)
Promote ==
    /\ pc = "promote"
    /\ Silent
    /\ \E ok \in FsCall :
         /\ IF ok
            THEN /\ fs' = [fs EXCEPT !.distDir = fs.distTmp, !.distTmp = NoDir]
                 /\ swap' = [swap EXCEPT !.promote = "ok"]
                 /\ installed' = TRUE
                 /\ pc' = "rmBak"
            ELSE /\ fs' = fs
                 /\ swap' = [swap EXCEPT !.promote = "failed"]
                 /\ installed' = installed
                 /\ pc' = "rollback"
    /\ UNCHANGED <<remote, sessions, pre, filesToDownload, idx, net, result,
                   errPhase, prevResult, check, env, errFile, manifest, plan, main>>

\* rmSync(distBak) after the renames: a throw goes to the catch.
RemoveBak ==
    /\ pc = "rmBak"
    /\ Silent
    /\ \E ok \in FsCall :
         /\ IF ok
            THEN fs' = [fs EXCEPT !.distBak = NoDir] /\ pc' = "rmTmp"
            ELSE fs' = fs /\ pc' = "rollback"
    /\ UNCHANGED <<remote, sessions, pre, filesToDownload, idx, net, result,
                   errPhase, prevResult, swap, installed, check, env, errFile,
                   manifest, plan, main>>

\* rmSync(tmpRoot) after the renames: a throw goes to the catch.
RemoveTmpRoot ==
    /\ pc = "rmTmp"
    /\ Silent
    /\ \E ok \in FsCall :
         /\ IF ok
            THEN fs' = [fs EXCEPT !.tmpRoot = NoDir] /\ pc' = "marker"
            ELSE fs' = fs /\ pc' = "rollback"
    /\ UNCHANGED <<remote, sessions, pre, filesToDownload, idx, net, result,
                   errPhase, prevResult, swap, installed, check, env, errFile,
                   manifest, plan, main>>

\* A mutated marker: the timestamp is written into what was displaced.
writeMarker_bak(f, stamp) ==
    [f EXCEPT !.distBak = [EmptyDir EXCEPT !.files[".updated_at"] = stamp]]

\* fs.writeFileSync(path.join(distDir, '.updated_at'), new Date()
\* .toISOString(), 'utf8')
writeMarker(f, stamp) == [f EXCEPT !.distDir.files[".updated_at"] = stamp]

\* Write distDir/.updated_at (a failure to is ignored), return updated:true.
Marker ==
    /\ pc = "marker"
    /\ Silent
    /\ \E ok \in FsCall :
         /\ fs' = IF ok THEN writeMarker(fs, TimeStamps[sessions]) ELSE fs
    /\ pc' = "idle"
    /\ result' = "updated"
    /\ UNCHANGED <<remote, sessions, pre, filesToDownload, idx, net, errPhase,
                   prevResult, swap, installed, check, env, errFile, manifest,
                   plan, main>>

\* A mutated rollback: the staged tree is moved to distDir, not the backup.
RollbackRename_tmp(f) == [f EXCEPT !.distDir = f.distTmp, !.distTmp = NoDir]

\* renameSync(distBak, distDir)
RollbackRename(f) == [f EXCEPT !.distDir = f.distBak, !.distBak = NoDir]

\* new Error('Failed to swap dist directories: ' + e.message), e being the
\* error the swap threw first.
SwapError ==
    [message |-> "Failed to swap dist directories", causes |-> {"swap"},
     flags |-> {}]

\* The catch of the swap: if distBak exists and distDir does not, rename
\* distBak back (ignoring a failure to), then throw.
Rollback ==
    /\ pc = "rollback"
    /\ Silent
    /\ IF fs.distBak.exists /\ ~fs.distDir.exists
       THEN \E ok \in FsCall :
              /\ IF ok
                 THEN /\ fs' = RollbackRename(fs)
                      /\ swap' = [swap EXCEPT !.rollback = "ok",
                                              !.error = SwapError]
                 ELSE /\ fs' = fs
                      /\ swap' = [swap EXCEPT !.rollback = "failed",
                                              !.error = SwapError]
       ELSE fs' = fs /\ swap' = [swap EXCEPT !.error = SwapError]
    /\ Raise("swap")
    /\ UNCHANGED <<remote, sessions, pre, filesToDownload, idx, net,
                   prevResult, installed, check, env, manifest, plan, main>>

-----------------------------------------------------------------------------
(* checkForUpdate *)

\* Mutated requests of checkForUpdate: it also fetches index.html.
checkRequests_index(outcome) ==
    <<Request("manifest", "content.json", outcome),
      Request("discovery", "index.html", "ok")>>

\* The requests of one checkForUpdate call:
\* fetchText(remoteBaseUrl + '/content.json', 8000), nothing else.
checkRequests(outcome) == <<Request("manifest", "content.json", outcome)>>

\* checkForUpdate(options): read the local manifest, fetch and parse the
\* remote one (raising when that fails), compare the versions.
CheckForUpdate ==
    /\ pc = "idle"
    /\ \E outcome \in TextOutcomes :
         IF Rejected(outcome) \/ ~JsonParse(remote.raw).ok
         THEN check' = [NoCheck EXCEPT !.status = "error",
                                       !.net = checkRequests(outcome)]
         ELSE LET localVer == VersionOf(ReadLocal(fs))
                  remoteVer == VersionOf(JsonParse(remote.raw).value)
              IN check' = [status |-> "ok",
                           available |-> Available(localVer, remoteVer),
                           localVer |-> localVer,
                           remoteVer |-> remoteVer,
                           net |-> checkRequests(outcome)]
    /\ UNCHANGED <<fs, remote, pc, sessions, pre, filesToDownload, idx, net,
                   result, errPhase, prevResult, swap, installed, env,
                   progress, lastPct, threw, errFile, manifest, plan, main>>

-----------------------------------------------------------------------------
(* The process stops in the middle of a call: nothing is cleaned up. *)

Crash ==
    /\ pc /= "idle"
    /\ pc' = "idle"
    /\ result' = "crashed"
    /\ UNCHANGED <<fs, remote, sessions, pre, filesToDownload, idx, net,
                   errPhase, prevResult, swap, installed, check, env,
                   progress, lastPct, threw, errFile, manifest, plan, main>>

-----------------------------------------------------------------------------

Next ==
    \/ Start
    \/ Analyze
    \/ Resolve
    \/ Prepare
    \/ CreateFolder
    \/ Download
    \/ GenerateTts
    \/ Stage
    \/ CopyDist
    \/ CopyOverlay
    \/ RemoveStaleBak
    \/ Displace
    \/ Promote
    \/ RemoveBak
    \/ RemoveTmpRoot
    \/ Marker
    \/ Rollback
    \/ CheckForUpdate

Spec == Init /\ [][Next]_vars

\* The same program on a file system whose calls do not fail.
InitReliable == InitIn(ReliableFs)
ReliableSpec == InitReliable /\ [][Next]_vars

\* The same program called with an onProgress listener that may throw.
InitListener == InitIn(ThrowingListener)
ListenerSpec == InitListener /\ [][Next]_vars

\* The same program against a remote whose manifest has a book with
\* narrative text and an id that holds dot segments.
DotDotRemotes ==
    { [raw |-> r, files |-> <<"a.png">>, text |-> <<DotDotId>>,
       index |-> TRUE] : r \in {"nover", "v2"} }

InitDotDot == InitWith(FailingFs, DotDotRemotes)
DotDotSpec == InitDotDot /\ [][Next]_vars

\* The same program where the ways a fetch of text fails are told apart.
InitNet == InitIn(FailingNet)
NetSpec == InitNet /\ [][Next]_vars

\* The steps of a runUpdater call that is under way: each is code that
\* runs, or an awaited request that settles, once the call is at it.
Step ==
    \/ Analyze
    \/ Resolve
    \/ Prepare
    \/ CreateFolder
    \/ Download
    \/ GenerateTts
    \/ Stage
    \/ CopyDist
    \/ CopyOverlay
    \/ RemoveStaleBak
    \/ Displace
    \/ Promote
    \/ RemoveBak
    \/ RemoveTmpRoot
    \/ Marker
    \/ Rollback

\* The same program where a response or a write stream may fail after the
\* response started, and a call under way keeps taking its steps.
InitStream == InitIn(FailingStream)
StreamSpec == InitStream /\ [][Next]_vars /\ WF_vars(Step)

NextCrash == Next \/ Crash

\* The same program, where the process may also stop at any point of a call.
CrashSpec == Init /\ [][NextCrash]_vars

-----------------------------------------------------------------------------
(* The download set of runUpdater in full, for remote manifests of any shape *)

CoverRefs ==
    { NoRef,
      Absolute("cdn", <<"x", "a.png">>),
      Rooted(<<"media", "a.png">>),
      Relative(<<"a.png">>),
      Relative(<<"img", "a.png">>) }

Items ==
    { [type |-> t, src |-> r] :
        t \in {"image", "video", "paragraph"},
        r \in {NoRef, Relative(<<"b.png">>), Rooted(<<"media", "a.png">>)} }

Contents ==
    { <<>> } \cup { <<it>> : it \in Items } \cup
    { << [type |-> "image", src |-> Relative(<<"b.png">>)],
         [type |-> "video", src |-> Relative(<<"b.png">>)] >> }

Books ==
    { [id |-> i, cover |-> c, content |-> ct] :
        i \in {"undefined", "1"}, c \in CoverRefs, ct \in Contents }

BookLists == { <<>>, <<NullBook>> } \cup { <<b>> : b \in Books }

Collections ==
    { <<>> } \cup
    { << [books |-> <<[id |-> "1", cover |-> c, content |-> ct]>>] >> :
        c \in CoverRefs,
        ct \in { <<>>, <<[type |-> "image", src |-> Relative(<<"b.png">>)]>> } }

\* Entries of a files list: { url, path }, either of which may be missing.
FileEntries ==
    { [url |-> u, path |-> q] :
        u \in {NoRef, Rooted(<<"media", "a.png">>),
               Absolute("cdn", <<"x", "a.png">>), Relative(<<"a.png">>)},
        q \in {<<>>, <<"a.png">>, <<"books", "1", "a.png">>} }
    \ { [url |-> NoRef, path |-> <<>>] }

FilesLists ==
    { <<e>> : e \in FileEntries } \cup
    { << [url |-> Rooted(<<"media", "a.png">>), path |-> <<>>],
         [url |-> NoRef, path |-> <<"books", "1", "a.png">>] >> }

Manifests ==
    { [files |-> <<>>, books |-> bs, collections |-> cs] :
        bs \in BookLists, cs \in Collections } \cup
    { [files |-> f, books |-> bs, collections |-> <<>>] :
        f \in FilesLists, bs \in { <<>>, SiteManifest.books } }

InitResolver ==
    /\ manifest \in Manifests
    /\ plan = <<>>
    /\ env = ReliableFs
    /\ fs = [distDir |-> NoDir, tmpRoot |-> NoDir, distTmp |-> NoDir,
             distBak |-> NoDir]
    /\ pre = NoDir
    /\ installed = FALSE
    /\ remote = [raw |-> "nover", files |-> <<>>, text |-> <<>>,
                 index |-> TRUE]
    /\ pc = "idle"
    /\ sessions = 0
    /\ filesToDownload = <<>>
    /\ idx = 0
    /\ net = <<>>
    /\ result = "none"
    /\ errPhase = "none"
    /\ prevResult = "none"
    /\ swap = NoSwap
    /\ check = NoCheck
    /\ progress = <<>>
    /\ lastPct = NullPercent
    /\ threw = FALSE
    /\ errFile = "none"
    /\ main = NoHost

\* determine files to download, on `manifest`: the entries of its files
\* list when that is not empty; else the inferred URLs merged with what the
\* fetched index.html links (nothing when the fetch fails) and index.html.
\* Each entry goes with the destination the loops will compute for it.
ResolveFiles ==
    /\ plan = <<>>
    /\ IF Len(manifest.files) > 0
       THEN /\ plan' = [k \in 1..Len(manifest.files) |->
                           Planned(FileEntry(manifest.files[k]))]
            /\ net' = net
       ELSE \E outcome \in {"ok", "fail"} :
            \E indexAssets \in (IF outcome = "ok" THEN IndexAssets
                                ELSE { <<>> }) :
              LET merged == Merged(InferFiles(manifest), indexAssets) IN
              /\ net' = Append(net, Request("discovery", "index.html", outcome))
              /\ plan' = [k \in 1..Len(merged) |->
                             Planned(InferredEntry(merged[k]))]
    /\ UNCHANGED <<fs, remote, pc, sessions, pre, filesToDownload, idx, result,
                   errPhase, prevResult, swap, installed, check, env, progress,
                   lastPct, threw, errFile, manifest, main>>

ResolverSpec == InitResolver /\ [][ResolveFiles]_vars

-----------------------------------------------------------------------------
(* The 'updater:run' handler of the main process (src/index.js) *)

\* No runUpdater call is made.
NoSession ==
    /\ manifest = SiteManifest
    /\ plan = <<>>
    /\ env = ReliableFs
    /\ remote = [raw |-> "nover", files |-> <<>>, text |-> <<>>,
                 index |-> TRUE]
    /\ pc = "idle"
    /\ sessions = 0
    /\ filesToDownload = <<>>
    /\ idx = 0
    /\ net = <<>>
    /\ result = "none"
    /\ errPhase = "none"
    /\ prevResult = "none"
    /\ swap = NoSwap
    /\ check = NoCheck
    /\ progress = <<>>
    /\ lastPct = NullPercent
    /\ threw = FALSE
    /\ errFile = "none"

\* No runUpdater call is made and nothing is installed.
UpdaterIdle ==
    /\ fs = [distDir |-> NoDir, tmpRoot |-> NoDir, distTmp |-> NoDir,
             distBak |-> NoDir]
    /\ pre = NoDir
    /\ installed = FALSE
    /\ NoSession

InitHost == main = NoHost /\ UpdaterIdle

HostUnchanged ==
    UNCHANGED <<fs, remote, pc, sessions, pre, filesToDownload, idx, net,
                result, errPhase, prevResult, swap, installed, check, env,
                progress, lastPct, threw, errFile, manifest, plan>>

\* The renderer invokes 'updater:run': the handler creates its progress
\* window hidden, loads the page and awaits 'did-finish-load'.
HostRun ==
    /\ Len(main.handlers) < MaxRequests
    /\ main' = [main EXCEPT !.handlers =
                   Append(@, [at |-> "loading", window |-> "hidden",
                              status |-> "none"])]
    /\ HostUnchanged

\* 'did-finish-load' of handler h: show the window, onStatus('Starting
\* update...') to both windows, call updater.runUpdater and await it.
HostLoaded(h) ==
    /\ main.handlers[h].at = "loading"
    /\ main' = [main EXCEPT !.handlers[h] =
                                [at |-> "running", window |-> "shown",
                                 status |-> "Starting update"],
                            !.mainStatus = "Starting update"]
    /\ HostUnchanged

\* The runUpdater call of handler h settles.  Resolved: onStatus('Update
\* applied' or 'No update') to both windows, reload of the main window when
\* updated, return.  Rejected: 'Update failed' to the progress window, throw.
HostSettled(h) ==
    /\ main.handlers[h].at = "running"
    /\ \E res \in {"updated", "same-version", "error"} :
         LET message ==
                 CASE res = "updated" -> "Update applied"
                   [] res = "same-version" -> "No update"
                   [] res = "error" -> "Update failed"
         IN main' = [main EXCEPT
                       !.handlers[h] =
                          [at |-> IF res = "error" THEN "threw" ELSE "returned",
                           window |-> @.window,
                           status |-> message],
                       !.reloads = IF res = "updated" THEN @ + 1 ELSE @,
                       !.mainStatus = IF res = "error" THEN @ ELSE message]
    /\ HostUnchanged

\* The timer the finally of handler h set 900 ms ago closes the window.
HostTimer(h) ==
    /\ main.handlers[h].at \in {"returned", "threw"}
    /\ main.handlers[h].window /= "closed"
    /\ main' = [main EXCEPT !.handlers[h].window = "closed"]
    /\ HostUnchanged

NextHost ==
    \/ HostRun
    \/ \E h \in 1..Len(main.handlers) : HostLoaded(h)
    \/ \E h \in 1..Len(main.handlers) : HostSettled(h)
    \/ \E h \in 1..Len(main.handlers) : HostTimer(h)

HostSpec == InitHost /\ [][NextHost]_vars

\* The runUpdater calls in flight: those of the handlers awaiting one.
InFlight == { h \in 1..Len(main.handlers) : main.handlers[h].at = "running" }

-----------------------------------------------------------------------------
(* The TTS fallback of the main process (src/index.js) *)

\* The binaries spawnTtsFallback tries, in its order.
Candidates == <<"espeak-ng", "espeak", "espeak">>

InitTts ==
    /\ main \in { [NoHost EXCEPT !.binaries = b] :
                     b \in SUBSET Range(Candidates) }
    /\ UpdaterIdle

\* child.kill(): the signal is sent; the 'exit' event comes later.
kill(procs, p) ==
    IF p = 0 THEN procs ELSE [procs EXCEPT ![p].killed = TRUE]

\* spawn(cmd, args): throws at once on arguments that are not strings; else
\* returns a child, which runs when the binary exists and otherwise emits
\* 'error' later.
spawn(cmd, valid) ==
    [threw |-> ~valid,
     child |-> [cmd |-> cmd,
                state |-> IF cmd \in main.binaries THEN "alive"
                          ELSE "missing",
                killed |-> FALSE]]

\* The candidates of spawnTtsFallback from the k-th on: trySpawn returns
\* true when spawn returned, false when it threw.
RECURSIVE TrySpawns(_, _, _)
TrySpawns(k, valid, tried) ==
    IF k > Len(Candidates)
    THEN [tried |-> tried, returned |-> FALSE, spawned |-> <<>>]
    ELSE LET r == spawn(Candidates[k], valid) IN
         IF r.threw
         THEN TrySpawns(k + 1, valid, Append(tried, Candidates[k]))
         ELSE [tried |-> Append(tried, Candidates[k]), returned |-> TRUE,
               spawned |-> <<r.child>>]

\* 'tts:speak': kill the current process, then spawnTtsFallback(text, opts),
\* which tracks the child of the first spawn that returns.
TtsSpeak ==
    /\ Len(main.procs) < MaxSpeaks
    /\ \E valid \in BOOLEAN :
         LET call == TrySpawns(1, valid, <<>>)
             procs == kill(main.procs, main.current) \o call.spawned
         IN main' = [main EXCEPT
                       !.procs = procs,
                       !.current = IF call.returned THEN Len(procs) ELSE 0,
                       !.lastCall = [tried |-> call.tried,
                                     returned |-> call.returned]]
    /\ HostUnchanged

\* 'tts:stop': kill the current process, if any, and forget it.
TtsStop ==
    /\ main' = [main EXCEPT !.procs = kill(main.procs, main.current),
                            !.current = 0]
    /\ HostUnchanged

\* The 'exit' event of child p, which ended by itself or was killed: its
\* listener sets currentTtsProcess to null.
TtsExit(p) ==
    /\ main.procs[p].state = "alive"
    /\ main' = [main EXCEPT !.procs[p].state = "exited", !.current = 0]
    /\ HostUnchanged

\* The 'error' event of child p, whose binary could not be started: its
\* listener sets currentTtsProcess to null.
TtsError(p) ==
    /\ main.procs[p].state = "missing"
    /\ main' = [main EXCEPT !.procs[p].state = "failed", !.current = 0]
    /\ HostUnchanged

NextTts ==
    \/ TtsSpeak
    \/ TtsStop
    \/ \E p \in 1..Len(main.procs) : TtsExit(p)
    \/ \E p \in 1..Len(main.procs) : TtsError(p)

TtsSpec == InitTts /\ [][NextTts]_vars

\* The TTS processes that are running: started, not ended, not killed.
Running ==
    { p \in 1..Len(main.procs) :
        main.procs[p].state = "alive" /\ ~main.procs[p].killed }

-----------------------------------------------------------------------------
(* The dist directory and the static server of createWindow (src/index.js) *)

\* path.dirname(chosenDistIndex || embeddedDistIndex), and
\* path.join(app.getPath('userData'), 'dist').
RuntimeSourceDir == <<"app", "dist">>
UserDist == <<"userData", "dist">>

\* The distDir handed to checkForUpdate and runUpdater: on Linux in an
\* AppImage the copy in userData, made now if the source exists and the
\* copy does not; the source when making it throws, and everywhere else.
updaterDistDir(linux, appImage, source, userDist, copyFails) ==
    IF linux /\ appImage
    THEN IF source /\ ~userDist
         THEN IF copyFails THEN RuntimeSourceDir ELSE UserDist
         ELSE IF userDist THEN UserDist ELSE RuntimeSourceDir
    ELSE RuntimeSourceDir

\* resolvedDistDir: set in the AppImage branch only (<<>>: null).
resolvedDistDir(linux, appImage, source, userDist, copyFails) ==
    IF linux /\ appImage
    THEN updaterDistDir(linux, appImage, source, userDist, copyFails)
    ELSE <<>>

\* The distDir of the server, which exists when a dist index was chosen
\* (<<>>: no server): resolvedDistDir, else the userData copy if there is
\* one by now, else the source.
serverDistDir(linux, appImage, source, userDist, copyFails) ==
    LET resolved ==
            resolvedDistDir(linux, appImage, source, userDist, copyFails)
        userDistNow == userDist \/ (linux /\ appImage /\ source)
    IN IF ~source THEN <<>>
       ELSE IF resolved /= <<>> THEN resolved
       ELSE IF userDistNow THEN UserDist
       ELSE RuntimeSourceDir

\* createWindow: the two directories are chosen once, at startup.
CreateWindow ==
    /\ main.updaterDir = <<>>
    /\ \E linux, appImage, source, userDist, copyFails \in BOOLEAN :
         main' = [main EXCEPT
                    !.updaterDir = updaterDistDir(linux, appImage, source,
                                                  userDist, copyFails),
                    !.serverDir = serverDistDir(linux, appImage, source,
                                                userDist, copyFails)]
    /\ HostUnchanged

\* A path as the string startsWith reads: a separator before each segment,
\* and distDir + '.bak' being the name of distDir followed by '.bak'.
RECURSIVE Text(_)
Text(segs) ==
    IF segs = <<>> THEN <<>>
    ELSE <<"/">> \o (IF Head(segs) = "dist.bak" THEN <<"dist", ".bak">>
                     ELSE <<Head(segs)>>) \o Text(Tail(segs))

\* safePath.startsWith(distDir), on the strings.
startsWith(path, dir) ==
    LET s == Text(path)
        t == Text(dir)
    IN Len(t) <= Len(s) /\ SubSeq(s, 1, Len(t)) = t

\* The build packaged with the application, which the first AppImage run
\* copies to userData.
PackagedTree ==
    [exists |-> TRUE,
     files |-> [NoFiles EXCEPT !["content.json"] = "v1",
                               !["index.html"] = "old",
                               !["app.js"] = "old"]]

\* The tree a committed update left in distDir.
CommittedTree ==
    [exists |-> TRUE,
     files |-> [NoFiles EXCEPT !["content.json"] = "v2",
                               !["index.html"] = "new",
                               !["app.js"] = "new"]]

\* The folder of a path and the tree the disk holds there: the folders of
\* the updater lie beside its distDir; a server directory that is not the
\* updater's holds the packaged build.
Folder(path) == SubSeq(path, 1, Len(path) - 1)

Disk(folder) ==
    LET beside(name) == Append(Folder(main.updaterDir), name) IN
    CASE folder = main.updaterDir -> fs.distDir
      [] folder = beside("dist.bak") -> fs.distBak
      [] folder = beside(".dist_tmp") -> fs.distTmp
      [] folder = beside(".update_tmp") -> fs.tmpRoot
      [] folder = main.serverDir /\ folder /= main.updaterDir -> PackagedTree
      [] OTHER -> NoDir

\* The content of the file at a path: "none" when there is no such file.
ReadFile(path) ==
    IF path = <<>> \/ path[Len(path)] \notin Names THEN "none"
    ELSE Disk(Folder(path)).files[path[Len(path)]]

\* A request path decodeURIComponent rejects.
Malformed == <<"%">>

\* The decoded paths of the requests, by segments: files of the build, the
\* root, a missing file, and paths that climb out of distDir.
RequestPaths ==
    { <<>>, <<"index.html">>, <<"app.js">>, <<"content.json">>,
      <<"missing.js">>, Malformed,
      <<"..", "dist.bak", "index.html">>,
      <<"..", ".dist_tmp", "index.html">>,
      <<"..", ".update_tmp", "index.html">>,
      <<"..", "..", "etc", "passwd">> }

\* The request handler of the server: fresh is false when the validators
\* of a conditional request match the file.
Serve(pathname, fresh) ==
    /\ main.serverDir /= <<>>
    /\ LET safePath ==
               Normalize(main.serverDir,
                         IF pathname = <<>> THEN <<"index.html">>
                         ELSE pathname)
           reply(status, body) ==
               [status |-> status, body |-> body, path |-> safePath]
       IN main' = [main EXCEPT !.response =
              IF pathname = Malformed THEN reply(500, "none")
              ELSE IF ~startsWith(safePath, main.serverDir)
                   THEN reply(403, "none")
              ELSE IF ReadFile(safePath) = "none" THEN reply(404, "none")
              ELSE IF ~fresh THEN reply(304, "none")
              ELSE reply(200, ReadFile(safePath))]
    /\ HostUnchanged

\* The disk when the application starts: an installed build, and beside
\* it what earlier updater sessions may have left.
InitServer ==
    /\ main = NoHost
    /\ fs \in [distDir : {CommittedTree},
                distBak : {NoDir, PackagedTree},
                distTmp : {NoDir, PackagedTree},
                tmpRoot : {NoDir, PackagedTree}]
    /\ pre = fs.distDir
    /\ installed = TRUE
    /\ NoSession

NextServer ==
    \/ CreateWindow
    \/ \E pathname \in RequestPaths, fresh \in BOOLEAN :
          Serve(pathname, fresh)

ServerSpec == InitServer /\ [][NextServer]_vars

\* A request has been answered with the content of a file.
Served == main.response.status = 200

-----------------------------------------------------------------------------
(* Properties of runUpdater and checkForUpdate *)

\* The call has ended by returning or by raising.
Ended == pc = "idle" /\ result \in {"updated", "same-version", "error"}

\* The text of the local content.json, "none" when there is no such file.
LocalText(d) == IF d.exists THEN d.files["content.json"] ELSE "none"

\* C1: whenever runUpdater ends by raising an error, in whatever phase, the
\* content of distDir is what it was before the call.
C1_FailureLeavesDistDir ==
    (pc = "idle" /\ result = "error") => fs.distDir = pre

\* C2: at every instant of a runUpdater call, the instant between the two
\* renames included, distDir exists and holds the complete old tree or the
\* complete new tree.
C2_DistDirAlwaysComplete ==
    (pc /= "idle" /\ pre.exists) =>
        /\ fs.distDir.exists
        /\ (fs.distDir = pre \/ swap.promote = "ok")

\* C3: the process may stop at any point and runUpdater be run again later;
\* once a complete tree has been installed, there is always one at distDir or
\* at distDir.bak (no later session deletes distDir.bak while distDir is
\* missing).
C3_CommittedTreeSurvives ==
    installed => (fs.distDir.exists \/ fs.distBak.exists)

C5_DownloadFailureLeavesNothing ==
    (pc = "idle" /\ result = "error" /\ errPhase = "download") =>
        /\ fs.distDir = pre
        /\ ~fs.tmpRoot.exists
        /\ ~fs.distTmp.exists

\* C6: on a failure in Create-folders or in Download, tmpRoot has been deleted
\* when runUpdater raises.
C6_TmpRootDeletedOnFailure ==
    (pc = "idle" /\ result = "error"
        /\ errPhase \in {"create-folders", "download"}) => ~fs.tmpRoot.exists

\* C7: when a runUpdater call has ended, by returning or by raising, tmpRoot,
\* distTmp and distDir.bak do not exist.
C7_NoTemporaryPathLeft ==
    Ended => (~fs.tmpRoot.exists /\ ~fs.distTmp.exists /\ ~fs.distBak.exists)

\* C8: a runUpdater call that returns, made after a call that applied an
\* update from the same remote, returns updated:false and leaves distDir as
\* it was.
C8_SecondRunIsNoop ==
    (pc = "idle" /\ prevResult = "updated"
        /\ result \in {"updated", "same-version"}) =>
        (result = "same-version" /\ fs.distDir = pre)

\* The local manifest and the remote manifest carry the same version.
EqualVersions ==
    /\ LocalText(pre) \in VersionTexts
    /\ remote.raw \in VersionTexts
    /\ LocalText(pre) = remote.raw

\* C9: when the local version equals the remote version, the call changes
\* nothing on disk (no temporary directory, no rename), requests nothing but
\* the remote content.json, and ends at once: with updated:false,
\* reason 'same-version' when that request succeeded.
C9_VersionGate ==
    [][ /\ (pc = "idle" /\ pc' = "analyze") => fs' = fs
        /\ (pc = "analyze" /\ EqualVersions) =>
              /\ fs' = fs
              /\ pc' = "idle"
              /\ Len(net') = 1
              /\ net'[1].kind = "manifest"
              /\ result' = IF net'[1].outcome = "ok" THEN "same-version"
                           ELSE "error" ]_vars

\* A call that returned same-version on equal versions.
C9_Witness ==
    /\ pc = "idle" /\ result = "same-version"
    /\ EqualVersions
    /\ net = <<Request("manifest", "content.json", "ok")>>

\* C10: checkForUpdate returns available = true exactly when the remote
\* manifest has a version and the local manifest (missing, unparsable,
\* without version or with one) has none or has another one.
C10_AvailableIff ==
    check.status = "ok" =>
        (check.available <=>
            /\ remote.raw \in VersionTexts
            /\ (LocalText(fs.distDir) \notin VersionTexts
                \/ LocalText(fs.distDir) /= remote.raw))

\* checkForUpdate found an update for an install whose content.json does not
\* parse.
C10_Witness ==
    /\ check.status = "ok" /\ check.available
    /\ LocalText(fs.distDir) = "bad"

\* C11: a checkForUpdate call, whether it returns or raises, leaves distDir,
\* tmpRoot, distTmp and distDir.bak as they were, and its only network
\* request is the GET of the remote content.json.
C11_CheckChangesNothing ==
    [][ (pc = "idle" /\ pc' = "idle") =>
            /\ fs' = fs
            /\ check'.status \in {"ok", "error"}
            /\ Len(check'.net) = 1
            /\ check'.net[1].kind = "manifest"
            /\ check'.net[1].name = "content.json" ]_vars

\* checkForUpdate raised on an install that an earlier session left with a
\* backup directory, which is still there.
C11_Witness ==
    /\ pc = "idle" /\ check.status = "error"
    /\ Len(check.net) = 1
    /\ fs.distDir.exists /\ fs.distBak.exists

\* The non-null percents among `events`, in order.
Percents(events) ==
    LET nonNull == SelectSeq(events, LAMBDA e : e.percent /= NullPercent)
    IN [k \in 1..Len(nonNull) |-> nonNull[k].percent]

NonDecreasing(seq) == \A k \in 1..(Len(seq) - 1) : seq[k] <= seq[k + 1]

\* C12: over one runUpdater session the non-null percents delivered to
\* onProgress never decrease: each step of the call delivers percents that
\* are in non-decreasing order and not below the last one delivered before,
\* in every phase and whatever the outcome of the audio fetch.
C12_PercentNeverDecreases ==
    [][ pc /= "idle" =>
            NonDecreasing(<<lastPct>> \o Percents(progress')) ]_vars

\* A session that went through all four phases, whose audio fetch failed
\* after a first chunk, and that has delivered its last percent.
C12_Witness ==
    /\ pc = "stage"
    /\ Len(net) > 0
    /\ net[Len(net)] = Request("tts", "books/2/tts.wav", "fail")
    /\ Len(Percents(progress)) = 2
    /\ lastPct = Pct(100)
    /\ Len(filesToDownload) > 2

\* C13: when a runUpdater call has returned updated:true, the last non-null
\* percent it delivered is exactly 100, also when no book of the manifest has
\* narrative text.
C13_SuccessEndsAt100 ==
    (pc = "idle" /\ result = "updated") => lastPct = Pct(100)

\* Every request of the session was answered, and nothing else stands in the
\* way of the update: the remote manifest parses and distDir was there.
NothingElseFails ==
    /\ \A k \in 1..Len(net) : net[k].outcome = "ok"
    /\ remote.raw /= "bad"
    /\ pre.exists

\* C14: an exception thrown by the onProgress listener, at whatever emission,
\* never aborts the update: the call ends as it does with a listener that
\* does not throw, that is, when nothing else fails, by returning.
C14_ListenerExceptionIgnored ==
    (pc = "idle" /\ threw /\ NothingElseFails) =>
        result \in {"updated", "same-version"}

\* The session found no files list, and its fetch of index.html failed.
DiscoveryFailed ==
    /\ Len(remote.files) = 0
    /\ \E k \in 1..Len(net) :
          net[k] = Request("discovery", "index.html", "fail")

\* The manifest was fetched, and no download of an asset found by the
\* structural walk has failed.
StructuralAssetsDownload ==
    \A k \in 1..Len(net) :
        (\/ net[k].kind = "manifest"
         \/ /\ net[k].kind = "asset"
            /\ \E j \in 1..Len(inferFilesFromManifest) :
                  net[k].name = inferFilesFromManifest[j])
        => net[k].outcome = "ok"

\* C15: without a files list, a remote index.html that is absent or cannot
\* be fetched is not fatal: provided the manifest and every asset found by
\* the structural walk can be downloaded, the call completes and commits.
C15_MissingIndexNotFatal ==
    (pc = "idle" /\ DiscoveryFailed /\ StructuralAssetsDownload /\ pre.exists)
        => result = "updated"

\* The books of `manifest` that handleBook looks at: those of the top-level
\* books array and those of every collection, null entries left out.
BooksOf(m) ==
    (Range(m.books)
        \cup UNION { Range(m.collections[k].books) :
                        k \in 1..Len(m.collections) })
    \ {NullBook}

PlannedUrls == { plan[k].url : k \in 1..Len(plan) }

\* C16: without a files list, the resolved asset set holds, for every book
\* of books and of collections[].books, the resolved cover (if any) and the
\* resolved src of every image or video item; it always holds
\* {baseUrl}/content.json and {baseUrl}/index.html; it holds no URL twice.
C16_ResolvedAssetSet ==
    (plan /= <<>> /\ Len(manifest.files) = 0) =>
        /\ \A b \in BooksOf(manifest) :
              /\ b.cover /= NoRef => resolveAsset(b.cover, b) \in PlannedUrls
              /\ \A k \in 1..Len(b.content) :
                    (b.content[k].type \in {"image", "video"}
                        /\ b.content[k].src /= NoRef)
                    => resolveAsset(b.content[k].src, b) \in PlannedUrls
        /\ Url(BaseHost, <<"content.json">>) \in PlannedUrls
        /\ Url(BaseHost, <<"index.html">>) \in PlannedUrls
        /\ \A j, k \in 1..Len(plan) : plan[j].url = plan[k].url => j = k

\* The manifest {collections:[{books:[{id:1, cover:'a.png', content:[{type:
\* 'image', src:'b.png'}]}]}]} resolved, with an index.html that links the
\* manifest again: books/1/a.png, books/1/b.png and content.json are there.
C16_Witness ==
    /\ manifest.books = <<>>
    /\ manifest.collections =
          << [books |-> <<[id |-> "1", cover |-> Relative(<<"a.png">>),
                           content |-> <<[type |-> "image",
                                          src |-> Relative(<<"b.png">>)]>>]>>] >>
    /\ Len(plan) = 5
    /\ plan[1].url = Url(BaseHost, <<"books", "1", "a.png">>)
    /\ plan[2].url = Url(BaseHost, <<"books", "1", "b.png">>)
    /\ plan[3].url = Url(BaseHost, <<"content.json">>)

\* The path-resolution rule as stated, for a reference p of a book with id.
RuleUrl(p, book) ==
    IF p.form = "absolute" THEN Url(p.host, p.segs)
    ELSE IF p.form = "rooted" THEN Url(BaseHost, p.segs)
    ELSE IF Len(p.segs) = 1
         THEN Url(BaseHost, <<"books", book.id>> \o p.segs)
         ELSE Url(BaseHost, p.segs)

\* C17: for every reference p of a book: an absolute URL is kept as it is; a
\* p with a leading '/' resolves against baseUrl; a bare filename resolves to
\* {baseUrl}/books/{book.id}/{p}; any other p (a relative path with a
\* directory part) resolves relative to baseUrl, not into the book folder.
C17_PathResolutionRule ==
    (plan /= <<>> /\ Len(manifest.files) = 0) =>
        \A b \in BooksOf(manifest) :
            (b.id /= "undefined" /\ b.cover /= NoRef)
                => RuleUrl(b.cover, b) \in PlannedUrls

\* C18: with a non-empty files list the download set is exactly its entries
\* (no discovery fetch, nothing added), and each entry is written to tmpRoot
\* under its explicit path, or under the basename of its URL when it has no
\* explicit path.
C18_FilesListVerbatim ==
    (plan /= <<>> /\ Len(manifest.files) > 0) =>
        /\ Len(plan) = Len(manifest.files)
        /\ net = <<>>
        /\ \A k \in 1..Len(plan) :
              plan[k].dest =
                 IF manifest.files[k].path /= <<>> THEN manifest.files[k].path
                 ELSE <<Basename(plan[k].url)>>

\* The audio fetch for book `id` failed in this session.
TtsFailed(id) ==
    \E k \in 1..Len(net) : net[k] = Request("tts", ttsRel(id), "fail")

\* C19: the failure of the audio fetch of any of the books never makes
\* runUpdater raise: the session goes on to the swap and commits every file
\* of the Download phase, and the committed tree holds no audio file for a
\* book whose fetch failed.
C19_AudioFailureSkipped ==
    /\ (pc = "idle" /\ result = "error") => errPhase /= "tts"
    /\ (pc = "idle" /\ result = "updated") =>
          /\ \A n \in Range(filesToDownload) :
                fs.distDir.files[n] = DownloadedContent(n)
          /\ \A k \in 1..Len(TtsBooks) :
                TtsFailed(TtsBooks[k]) =>
                    fs.distDir.files[ttsRel(TtsBooks[k])] = "none"

\* The session's download of some file ended with a zero-byte file.
ZeroByteDownload ==
    /\ Len(net) > 0
    /\ net[Len(net)].kind = "asset"
    /\ net[Len(net)].outcome = "zero"

NewStamp == TimeStamps[sessions]

MarkerWritten ==
    /\ sessions > 0
    /\ fs'.distDir.exists
    /\ fs'.distDir.files[".updated_at"] = NewStamp
    /\ fs.distDir.files[".updated_at"] /= NewStamp

Messages ==
    {"Analyzing", "Content up-to-date", "Creating folders", "Prepared folder",
     "Downloading files", "Downloading", "Downloaded", "Generating TTS",
     "Downloading TTS", "Processed TTS"}

FailureMessages == {"Update failed"} \cap Messages

FailureStatus(e) == e.percent = NullPercent /\ e.message \in FailureMessages

\* C22: When a runUpdater call has raised, the last message its progress
\* callback received, in the step that raised, is a failure status.
C22_TerminalFailureStatus ==
    (pc = "idle" /\ result = "error") =>
        /\ progress /= <<>>
        /\ FailureStatus(progress[Len(progress)])

\* The session found no usable local manifest: distDir or its content.json
\* is missing, or content.json does not parse.
NoLocalManifest == ReadLocal([distDir |-> pre]).isNull

\* The remote manifest parses and no request of the session failed.
RemoteServedAll ==
    /\ JsonParse(remote.raw).ok
    /\ net /= <<>>
    /\ \A k \in 1..Len(net) : net[k].outcome = "ok"

\* C23: A call that found no usable local manifest, whose remote manifest
\* parses and whose requests all succeeded, returns updated:true.
C23_FreshInstallCompletes ==
    (pc = "idle" /\ sessions > 0 /\ result /= "running"
        /\ NoLocalManifest /\ RemoteServedAll)
        => result = "updated"

\* C24: When a rename of the swap failed and the rollback rename failed too,
\* the error runUpdater raises carries the error of the swap and the error
\* of the rollback, and is flagged as needing manual intervention.
C24_RollbackFailureSurfaced ==
    (pc = "idle" /\ result = "error" /\ swap.rollback = "failed"
        /\ "failed" \in {swap.displace, swap.promote})
        => /\ {"swap", "rollback"} \subseteq swap.error.causes
           /\ "manual" \in swap.error.flags

\* C25: At most one runUpdater call is in flight at any time, whatever
\* 'updater:run' requests the main process receives.
C25_OneCallInFlight == Cardinality(InFlight) <= 1

\* The requests of the Download phase of the session, in order.
AssetRequests == SelectSeq(net, LAMBDA r : r.kind = "asset")

\* C26: The files of the download set are requested one after the other in
\* list order, each after the one before it was downloaded and passed the
\* size check; a failed download is the last request of the session.
C26_SequentialDownloads ==
    /\ Len(AssetRequests) <= Len(filesToDownload)
    /\ \A k \in 1..Len(AssetRequests) :
         /\ AssetRequests[k].name = filesToDownload[k]
         /\ k < Len(AssetRequests) => AssetRequests[k].outcome = "ok"
    /\ \A k \in 1..Len(net) :
         net[k].kind = "asset" /\ net[k].outcome /= "ok" =>
             /\ k = Len(net)
             /\ pc = "idle"
             /\ result = "error"

C26_Witness ==
    /\ Len(AssetRequests) >= 2
    /\ Len(AssetRequests) < Len(filesToDownload)
    /\ AssetRequests[Len(AssetRequests)].outcome /= "ok"
    /\ result = "error"

\* The positions of a runUpdater call before renameSync(distDir, distBak)
\* has been called.
BeforeDisplace ==
    {"analyze", "resolve", "prepare", "folders", "download", "tts", "stage",
     "copyDist", "overlay", "rmStaleBak", "displace"}

\* C27: Up to the Displace rename, distDir is what it was when the call
\* started: no step before it creates, changes or deletes anything in it.
C27_NoWriteBeforeDisplace == pc \in BeforeDisplace => fs.distDir = pre

\* The positions of the build: ensureDir(distTmp) and the two copies.
Build == {"stage", "copyDist", "overlay"}

\* distTmp holds every file of tmpRoot as it is in tmpRoot, and every file
\* of distDir that tmpRoot does not hold as it is in distDir.
Overlaid(f) ==
    \A n \in Names :
       /\ (f.tmpRoot.exists /\ f.tmpRoot.files[n] /= "none") =>
              f.distTmp.files[n] = f.tmpRoot.files[n]
       /\ (~(f.tmpRoot.exists /\ f.tmpRoot.files[n] /= "none")
             /\ f.distDir.exists /\ f.distDir.files[n] /= "none") =>
              f.distTmp.files[n] = f.distDir.files[n]

\* C28: No step of the build changes tmpRoot or distDir, and when the build
\* is done distTmp exists and holds the files of distDir overlaid with those
\* of tmpRoot.
C28_BuildOverlays ==
    [][ (pc \in Build) =>
          /\ fs'.tmpRoot = fs.tmpRoot
          /\ fs'.distDir = fs.distDir
          /\ (pc' = "rmStaleBak" =>
                 (fs'.distTmp.exists /\ Overlaid(fs'))) ]_vars

C28_Witness ==
    /\ pc = "rmStaleBak"
    /\ fs.tmpRoot.files["a.png"] = "new"
    /\ fs.distDir.files["a.png"] = "old"
    /\ fs.distTmp.files["a.png"] = "new"
    /\ fs.distTmp.files["keep.txt"] = "old"

\* The positions of a runUpdater call that does not raise, in their order.
Steps ==
    <<"analyze", "resolve", "prepare", "folders", "download", "tts", "stage",
      "copyDist", "overlay", "rmStaleBak", "displace", "promote", "rmBak",
      "rmTmp", "marker">>

Position(p) == CHOOSE k \in 1..Len(Steps) : Steps[k] = p

\* A step deletes distDir.bak (a rename of it changes distDir too), or
\* deletes tmpRoot or what it held.
BakDeleted ==
    fs.distBak.exists /\ ~fs'.distBak.exists /\ fs'.distDir = fs.distDir

TmpRootDeleted ==
    /\ fs.tmpRoot.exists
    /\ fs'.tmpRoot /= fs.tmpRoot
    /\ fs'.tmpRoot \in {NoDir, EmptyDir}

\* C29 (amended): A call goes through its positions in one fixed order:
\* the Download phase starts after the last create-folders step, enrichment
\* after every file was downloaded, the build after enrichment, Promote
\* after a Displace that succeeded.  distDir.bak is deleted only after
\* Promote succeeded or, a stale one, just before Displace; tmpRoot is
\* deleted only after Promote succeeded, at the start of Phase 2 (a stale
\* one) or by the catch of a failed download.
C29_FixedOrder ==
    [][ /\ (pc' \notin {"idle", "rollback", pc}) =>
              \/ pc = "idle" /\ pc' = "analyze"
              \/ pc /= "idle" /\ Position(pc') = Position(pc) + 1
        /\ (pc = "folders" /\ pc' = "download") =>
              idx = Len(filesToDownload)
        /\ (pc = "download" /\ pc' = "tts") =>
              /\ Len(AssetRequests') = Len(filesToDownload)
              /\ \A k \in 1..Len(AssetRequests') :
                    AssetRequests'[k].outcome = "ok"
        /\ (pc' = "promote") => swap'.displace = "ok"
        /\ (pc' = "rollback") =>
              pc \in {"rmStaleBak", "displace", "promote", "rmBak", "rmTmp"}
        /\ BakDeleted => (swap.promote = "ok" \/ pc = "rmStaleBak")
        /\ TmpRootDeleted =>
              (swap.promote = "ok" \/ pc \in {"prepare", "download"}) ]_vars

C29_Witness ==
    /\ pc = "marker"
    /\ swap.displace = "ok"
    /\ swap.promote = "ok"
    /\ ~fs.distBak.exists
    /\ ~fs.tmpRoot.exists
    /\ Len(AssetRequests) = Len(filesToDownload)

\* C29 as stated, its last part: distDir.bak and tmpRoot are deleted only
\* after Promote succeeded.
C29_DeletedOnlyAfterPromote ==
    [][ (BakDeleted \/ TmpRootDeleted) => swap.promote = "ok" ]_vars

\* The fetch of the remote content.json met a connection error, a timeout
\* or a status >= 400, or its body does not parse.
ManifestFailed(request) ==
    \/ request.outcome \in {"connection", "timeout", "http"}
    \/ ~JsonParse(remote.raw).ok

\* C30: When the fetch of the remote content.json fails, or its body is not
\* valid JSON, runUpdater raises in the analyze phase having changed no
\* path and requested nothing else, and checkForUpdate raises.
C30_ManifestFailureRaises ==
    [][ /\ (pc = "idle" /\ pc' = "analyze") => (fs' = fs /\ net' = <<>>)
        /\ (pc = "analyze" /\ ManifestFailed(net'[Len(net')])) =>
              /\ pc' = "idle"
              /\ result' = "error"
              /\ errPhase' = "analyze"
              /\ fs' = fs
              /\ net' = <<Request("manifest", "content.json",
                                  net'[1].outcome)>>
        /\ (check'.net /= <<>> /\ ManifestFailed(check'.net[1])) =>
              check'.status = "error" ]_vars

C30_Witness ==
    /\ result = "error"
    /\ net = <<Request("manifest", "content.json", "timeout")>>
    /\ JsonParse(remote.raw).ok
    /\ check.status = "error"
    /\ check.net = <<Request("manifest", "content.json", "http")>>

\* What checkForUpdate answers on the manifests the running call read: the
\* local one as it was when the call started, and the remote one.
CheckWouldSayAvailable ==
    Available(VersionOf(ReadLocal([distDir |-> pre])),
              VersionOf(JsonParse(remote.raw).value))

\* C31: A runUpdater call is past its analyze phase only if checkForUpdate
\* answers available = true on the same manifests, and it has returned
\* 'same-version' only if checkForUpdate answers available = false.
C31_SameDecision ==
    /\ (pc \notin {"idle", "analyze"}) => CheckWouldSayAvailable
    /\ (pc = "idle" /\ result = "same-version") => ~CheckWouldSayAvailable

\* C32: The destination of every entry of the download set is a path
\* strictly inside tmpRoot: it has at least one segment below tmpRoot and
\* no segment that leads out of it.
C32_DestInsideTmpRoot ==
    \A k \in 1..Len(plan) :
       /\ plan[k].dest /= <<>>
       /\ ".." \notin Range(plan[k].dest)

\* The session fetched file n into tmpRoot.
FetchedInSession(n) ==
    \E k \in 1..Len(net) :
       /\ net[k].kind \in {"asset", "tts"}
       /\ net[k].name = n
       /\ net[k].outcome = "ok"

\* C33: After a commit every file of the new distDir, the marker apart, is
\* a file of the old distDir with its old content or a file this session
\* fetched.
C33_NoStaleFileCommitted ==
    (pc = "idle" /\ result = "updated") =>
        \A n \in Names \ {".updated_at"} :
           fs.distDir.files[n] /= "none" =>
               \/ (pre.exists /\ fs.distDir.files[n] = pre.files[n])
               \/ FetchedInSession(n)

\* C34: Every runUpdater call that is under way eventually returns or
\* raises.
C34_CallSettles == (pc /= "idle") ~> (pc = "idle")

\* C35: A TTS process that is running is the one currentTtsProcess refers
\* to, so that 'tts:stop' kills it.
C35_RunningIsTracked == \A p \in Running : main.current = p

\* C36: spawnTtsFallback returns true only if a candidate binary started,
\* and it tries espeak when espeak-ng cannot be started.
C36_TrueIffStarted ==
    /\ main.lastCall.returned =>
           main.procs[Len(main.procs)].state \in {"alive", "exited"}
    /\ (main.lastCall.tried /= <<>> /\ "espeak-ng" \notin main.binaries) =>
           "espeak" \in Range(main.lastCall.tried)

\* C37: The static server answers with the content of a file only if the
\* file lies inside distDir, and with 403 when the path resolves outside.
C37_ServedInsideDistDir ==
    LET path == main.response.path
        dir == main.serverDir
        inside == Len(path) > Len(dir) /\ SubSeq(path, 1, Len(dir)) = dir
    IN /\ Served => inside
       /\ (main.response.status \notin {0, 500} /\ ~inside) =>
              main.response.status = 403

\* C38: The distDir handed to the updater is the distDir the server reads.
C38_SameDistDir ==
    main.serverDir /= <<>> => main.updaterDir = main.serverDir

====
